---- MODULE Spec2Model ----
(***************************************************************************)
(* A model of cytube_bot.bot.Bot: the connection lifecycle driven by       *)
(* run(), the login handshake with its guest-throttle backoff, endpoint    *)
(* resolution (get_socket_config), disconnect(), and the handler registry  *)
(* (on / off / trigger).                                                   *)
(*                                                                         *)
(* Python values are encoded as follows.  None is <<>> for the cached      *)
(* endpoint and 0 for the transport handle (sessions are numbered from 1). *)
(* A str is the tuple of its characters.  A dict key that is absent is     *)
(* the value "absent".                                                     *)
(***************************************************************************)
EXTENDS Integers, Sequences, FiniteSets, TLC

\* ------------------------------------------------------------- bounds
\* Sessions the transport opens during one run() (run() itself is unbounded).
MaxSessions == 3
\* Ranks the server hands out are 0..MaxRank.
MaxRank == 1
\* Authenticate requests of one login() call (the code retries without limit).
MaxAuth == 2
\* Seconds values 0..MaxSeconds of the generated throttle messages.
MaxSeconds == 11
\* Entries of the server list of a socket config.
MaxServers == 2
\* Arguments of one on()/off() call.
MaxArgs == 2
\* Consecutive disconnect() calls of the caller in SpecDisconnect.
MaxCalls == 3
\* Handler invocations followed within one trigger() call.
MaxInvoked == 3
MaxUsers == 2

\* ------------------------------------------------- strings and regex
None == <<>>
NoSocket == 0

LIT_GUEST_LOGINS ==
    <<"g","u","e","s","t"," ","l","o","g","i","n","s"," ">>
LIT_SECONDS ==
    <<" ","s","e","c","o","n","d","s",".">>
NO_ERROR_MESSAGE ==
    <<"<","n","o"," ","e","r","r","o","r"," ","m","e","s","s","a","g","e",">">>

DigitChars == <<"0","1","2","3","4","5","6","7","8","9">>

IsDigit(c) == \E d \in 1..10 : DigitChars[d] = c

DigitValue(c) == (CHOOSE d \in 1..10 : DigitChars[d] = c) - 1

UpperCase ==
    [c \in {"g","u","e","s","t","l","o","i","n","c","d"} |->
        CASE c = "g" -> "G" [] c = "u" -> "U" [] c = "e" -> "E"
          [] c = "s" -> "S" [] c = "t" -> "T" [] c = "l" -> "L"
          [] c = "o" -> "O" [] c = "i" -> "I" [] c = "n" -> "N"
          [] c = "c" -> "C" [] c = "d" -> "D"]

\* A pattern character p against a subject character c under re.I.
CharMatches(c, p) ==
    \/ c = p
    \/ p \in DOMAIN UpperCase /\ c = UpperCase[p]

\* The literal lit matches s at position at (1-based), ignoring case.
LiteralAt(s, at, lit) ==
    /\ at + Len(lit) - 1 <= Len(s)
    /\ \A k \in 1..Len(lit) : CharMatches(s[at + k - 1], lit[k])

\* The places (i, j) at which  guest logins .* ([0-9]+) seconds\.  matches s
\* from its start: s[i] is the blank before the group, s[i+1..j] the group.
GuestLoginLimitPlaces(s) ==
    IF ~LiteralAt(s, 1, LIT_GUEST_LOGINS) THEN {}
    ELSE LET blanks == {i \in (Len(LIT_GUEST_LOGINS) + 1)..Len(s) :
                          /\ s[i] = " "
                          /\ \A k \in (Len(LIT_GUEST_LOGINS) + 1)..(i - 1) : s[k] # "\n"}
             ends(i) == {j \in (i + 1)..Len(s) :
                          /\ \A k \in (i + 1)..j : IsDigit(s[k])
                          /\ LiteralAt(s, j + 1, LIT_SECONDS)}
         IN UNION {{<<i, j>> : j \in ends(i)} : i \in blanks}

\* GUEST_LOGIN_LIMIT.match(err): None, or group(1).  Both quantifiers are
\* greedy: the longest .* wins, then the longest run of digits.
GUEST_LOGIN_LIMIT(s) ==
    LET places == GuestLoginLimitPlaces(s) IN
    IF places = {} THEN None
    ELSE LET i == CHOOSE i \in {p[1] : p \in places} :
                      \A p \in places : p[1] <= i
             j == CHOOSE j \in {p[2] : p \in {q \in places : q[1] = i}} :
                      \A p \in {q \in places : q[1] = i} : p[2] <= j
         IN SubSeq(s, i + 1, j)

\* int(text) of a non-empty run of decimal digits.
RECURSIVE IntOf(_)
IntOf(ds) ==
    IF Len(ds) = 0 THEN 0
    ELSE 10 * IntOf(SubSeq(ds, 1, Len(ds) - 1)) + DigitValue(ds[Len(ds)])

Max(a, b) == IF a >= b THEN a ELSE b

\* ThrottleDecision without the clamp max(..., 1).
ThrottleDecisionUnclamped(err) ==
    LET group == GUEST_LOGIN_LIMIT(err) IN
    IF group # None
    THEN [retry |-> TRUE, delay |-> IntOf(group)]
    ELSE [retry |-> FALSE, delay |-> 0]

\* ThrottleDecision retrying after a second on any failure.
ThrottleDecisionAlwaysRetries(err) ==
    LET group == GUEST_LOGIN_LIMIT(err) IN
    IF group # None
    THEN [retry |-> TRUE, delay |-> Max(IntOf(group), 1)]
    ELSE [retry |-> TRUE, delay |-> 1]

\* Lines 227-238 of login(): what an authenticate failure with error text
\* err leads to: a sleep of delay seconds and a retry, or LoginError.
ThrottleDecision(err) ==
    LET group == GUEST_LOGIN_LIMIT(err) IN
    IF group # None
    THEN [retry |-> TRUE, delay |-> Max(IntOf(group), 1)]
    ELSE [retry |-> FALSE, delay |-> 0]

\* str(n) for n >= 0: the server's side of the messages below.
RECURSIVE StrOf(_)
StrOf(n) ==
    IF n < 10 THEN <<DigitChars[n + 1]>>
    ELSE StrOf(n \div 10) \o <<DigitChars[(n % 10) + 1]>>

THROTTLE_HEAD ==
    <<"g","u","e","s","t"," ","l","o","g","i","n","s"," ","a","r","e"," ","l","i","m","i","t","e","d"," ","t","o"," ">>

\* "guest logins are limited to <n> seconds."
ThrottleMessage(n) == THROTTLE_HEAD \o StrOf(n) \o LIT_SECONDS

MSG_SPEC_30 ==
    <<"g","u","e","s","t"," ","l","o","g","i","n","s"," ","a","r","e"," ","l","i","m","i","t","e","d"," ","t","o"," ","1"," ","p","e","r"," ","3","0"," ","s","e","c","o","n","d","s",".">>
MSG_ABC ==
    <<"g","u","e","s","t"," ","l","o","g","i","n","s"," ","a","r","e"," ","l","i","m","i","t","e","d"," ","t","o"," ","a","b","c"," ","s","e","c","o","n","d","s",".">>
MSG_UPPER ==
    <<"G","u","e","s","t"," ","L","o","g","i","n","s"," ","a","r","e"," ","l","i","m","i","t","e","d"," ","t","o"," ","7"," ","S","E","C","O","N","D","S",".">>
MSG_TWICE ==
    <<"g","u","e","s","t"," ","l","o","g","i","n","s"," ","l","i","m","i","t","e","d"," ","5"," ","s","e","c","o","n","d","s","."," ","w","a","i","t"," ","2"," ","s","e","c","o","n","d","s",".">>
MSG_NODOT ==
    <<"g","u","e","s","t"," ","l","o","g","i","n","s"," ","a","r","e"," ","l","i","m","i","t","e","d"," ","t","o"," ","5"," ","s","e","c","o","n","d","s">>
MSG_NOT_AT_START ==
    <<"e","r","r","o","r",":"," ","g","u","e","s","t"," ","l","o","g","i","n","s"," ","a","r","e"," ","l","i","m","i","t","e","d"," ","t","o"," ","5"," ","s","e","c","o","n","d","s",".">>
MSG_BAD_PW ==
    <<"I","n","v","a","l","i","d"," ","p","a","s","s","w","o","r","d">>

\* Error texts of the throttle shape, and error texts of any other shape.
ThrottleMessages ==
    {ThrottleMessage(n) : n \in 0..MaxSeconds} \cup {MSG_SPEC_30, MSG_UPPER, MSG_TWICE}
OtherMessages ==
    {MSG_ABC, MSG_NODOT, MSG_NOT_AT_START, MSG_BAD_PW}

\* The acknowledgements of the authenticate request: a dict that may carry
\* 'success' and may carry 'error'.
AuthAcks ==
    {[success |-> TRUE, hasError |-> FALSE, error |-> None]}
    \cup {[success |-> FALSE, hasError |-> TRUE, error |-> m] :
             m \in ThrottleMessages \cup OtherMessages}
    \cup {[success |-> FALSE, hasError |-> FALSE, error |-> None]}

\* res.get('error', '<no error message>')
ErrorOf(res) == IF res.hasError THEN res.error ELSE NO_ERROR_MESSAGE

\* ------------------------------------------------- endpoint resolution
\* A server entry is a dict that may lack 'url' and may lack 'secure'.
Urls == {"A", "B"}
ServerEntries ==
    [url : Urls \cup {"absent"}, secure : {"true", "false", "absent"}]

RECURSIVE SeqsUpTo(_, _)
SeqsUpTo(S, n) ==
    IF n = 0 THEN {<<>>}
    ELSE LET shorter == SeqsUpTo(S, n - 1) IN
         shorter \cup {Append(q, x) : q \in {r \in shorter : Len(r) = n - 1}, x \in S}

\* The parsed configuration document: 'error' in conf, 'servers' in conf,
\* conf['servers'].
Confs ==
    [error : BOOLEAN, hasServers : {TRUE}, servers : SeqsUpTo(ServerEntries, MaxServers)]
    \cup [error : BOOLEAN, hasServers : {FALSE}, servers : {<<>>}]

\* '%(domain)s/socket.io/' % {'domain': url}
SOCKET_IO_URL(url) == <<url, "/socket.io/">>

\* next(srv['url'] for srv in servers if srv['secure']) from entry k on:
\* a url, or the exception that ends the search.
RECURSIVE NextSecure(_, _)
NextSecure(servers, k) ==
    IF k > Len(servers) THEN [raised |-> "StopIteration", url |-> "absent"]
    ELSE IF servers[k].secure = "absent" THEN [raised |-> "KeyError", url |-> "absent"]
    ELSE IF servers[k].secure = "true"
         THEN IF servers[k].url = "absent"
              THEN [raised |-> "KeyError", url |-> "absent"]
              ELSE [raised |-> "none", url |-> servers[k].url]
    ELSE NextSecure(servers, k + 1)

\* next(srv['url'] for srv in servers)
NextAny(servers) ==
    IF Len(servers) = 0 THEN [raised |-> "StopIteration", url |-> "absent"]
    ELSE IF servers[1].url = "absent" THEN [raised |-> "KeyError", url |-> "absent"]
    ELSE [raised |-> "none", url |-> servers[1].url]

\* conf['servers'] raises KeyError before either generator is built.
SecureLookup(conf) ==
    IF ~conf.hasServers THEN [raised |-> "KeyError", url |-> "absent"]
    ELSE NextSecure(conf.servers, 1)

AnyLookup(conf) ==
    IF ~conf.hasServers THEN [raised |-> "KeyError", url |-> "absent"]
    ELSE NextAny(conf.servers)

\* get_socket_config() from the parsed document on: the exception raised
\* ("none" if none) and the value of self.server afterwards, given its
\* value before.
get_socket_config(conf, before) ==
    IF conf.error THEN [raised |-> "SocketConfigError", server |-> before]
    ELSE LET secure == SecureLookup(conf) IN
         IF secure.raised = "none"
         THEN [raised |-> "none", server |-> SOCKET_IO_URL(secure.url)]
         ELSE LET any == AnyLookup(conf) IN
              IF any.raised = "none"
              THEN [raised |-> "none", server |-> SOCKET_IO_URL(any.url)]
              ELSE [raised |-> "SocketConfigError", server |-> before]

\* --------------------------------------------------------------- state
VARIABLES
    pc,               \* where the running coroutine is suspended
    exc,              \* "none", or what made run() leave its try block
    socket,           \* Bot.socket: NoSocket or the session's number
    retry_delay,      \* socket.retry_delay of the session held (0: no session)
    opened,           \* sessions the transport has opened so far
    closed,           \* sessions on which close() has been called
    server,           \* Bot.server: None or the cached endpoint
    rank,             \* Bot.user.rank
    lifecycle,        \* Disconnected, Connected, Authenticated, Terminated:
                      \* Connected once connect() has opened a session,
                      \* Authenticated once login() has returned, Disconnected
                      \* once a recv() error is to be retried, Terminated once
                      \* run() is over
    restart_on_error, \* Bot.restart_on_error
    named,            \* bool(Bot.user.name)
    ev,               \* the (ev, data) pair recv() returned, being dispatched
    sleeping,         \* seconds of the asyncio.sleep() in progress (0: none)
    res,              \* login()'s local res: the last acknowledgement
    joins,            \* joinChannel requests emitted on the session held
    auths,            \* login requests emitted by the login() call in progress
    loginFired,       \* the login() call in progress has triggered 'login'
    failed,           \* the session whose recv() failed, while it is still held
    finallyRan,       \* run()'s finally clause has called disconnect()
    conf,             \* the configuration document get_socket_config() parses
    calls,            \* outcomes of the caller's consecutive disconnect() calls
    handlers,         \* Bot.handlers: event -> list of handlers
    trigEvent,        \* the event of the trigger() call in progress, or last
    trigIdx,          \* the list iterator's index in that call (-1: no call)
    invoked,          \* handlers that call has invoked, in order
    mutated,          \* on()/off() changed the registry during that call
    stopped,          \* "no", or how that call was cut short: truthy, raised
    dupRejected,      \* <<event, handler>> on() last found registered already
    kept,             \* handlers registered ever since that call started
    user,             \* Bot.user: image, text, afk, muted, smuted, ip, aliases
    users,            \* Bot.channel.users
    payload,          \* the data of the userlist or addUser event last applied
    chatPc,           \* where the task calling chat_message() is
    chatArgs,         \* the arguments to and meta of its last call, and what
                      \* check_permission() did in it
    chatExc,          \* "none", or what that call raised
    emitted           \* the emit that call reached: event, data, handle used

runVars ==
    <<pc, exc, socket, retry_delay, opened, closed, server, rank, lifecycle,
      restart_on_error, named, ev, sleeping, res, joins, auths, loginFired,
      failed, finallyRan>>
cfgVars == <<conf>>
discVars == <<calls>>
regVars ==
    <<handlers, trigEvent, trigIdx, invoked, mutated, stopped, dupRejected, kept>>
mirrorVars == <<user, users, payload>>
chatVars == <<chatPc, chatArgs, chatExc, emitted>>
vars == <<runVars, cfgVars, discVars, regVars, mirrorVars, chatVars>>

NoEvent == [name |-> "none", data |-> 0]
\* res: nothing yet; the needPassword acknowledgement of joinChannel (only its
\* truthiness is read); the dict acknowledging login.
NoAck ==
    [kind |-> "none", truthy |-> FALSE, success |-> FALSE, hasError |-> FALSE,
     error |-> None]
JoinAckOf(t) ==
    [kind |-> "needPassword", truthy |-> t, success |-> FALSE, hasError |-> FALSE,
     error |-> None]
LoginAck(a) ==
    [kind |-> "login", truthy |-> TRUE, success |-> a.success,
     hasError |-> a.hasError, error |-> a.error]

\* What the transport reports as retry_delay of a session it opened.
RetryDelays == {1, 2}

\* The (ev, data) pairs recv() returns; data is 0 (falsy) where unused.
RecvEvents ==
    {[name |-> "rank", data |-> r] : r \in 0..MaxRank}
    \cup {[name |-> "needPassword", data |-> d] : d \in {0, 1}}
    \cup {[name |-> n, data |-> 0] : n \in {"kick", "noflood", "chatMsg"}}

\* Bot.__init__ with the registry as the constructor leaves it.
InternalHandlers ==
    [e \in {"rank", "chatMsg"} |-> IF e = "rank" THEN <<"_on_rank">> ELSE <<>>]

IdleRegistry ==
    /\ handlers = InternalHandlers
    /\ trigEvent = "none"
    /\ trigIdx = -1
    /\ invoked = <<>>
    /\ mutated = FALSE
    /\ stopped = "no"
    /\ dupRejected = <<>>
    /\ kept = {}

\* User.__init__ with no arguments (user.py lines 19-33), the fields besides
\* name, password and rank.  A value stands for itself; "absent" in a dict of
\* an event stands for a key the dict does not have.
DefaultUser ==
    [image |-> "", text |-> "", afk |-> "false", muted |-> "false",
     smuted |-> "false", ip |-> "None", aliases |-> "[]"]

\* The bot's own user as constructed, a channel without users, and no event
\* applied yet.
IdleMirror ==
    /\ user = DefaultUser
    /\ users = <<>>
    /\ payload = <<>>

\* No chat_message() call yet.
NoArgs == [to |-> "None", meta |-> "None", perm |-> "none"]
NoEmit == [ev |-> "none", meta |-> "None", handle |-> NoSocket]

IdleChat ==
    /\ chatPc = "idle"
    /\ chatArgs = NoArgs
    /\ chatExc = "none"
    /\ emitted = NoEmit

NoConf == [error |-> FALSE, hasServers |-> FALSE, servers |-> <<>>]

\* Bot.__init__ (lines 32-43) as seen by run().
Init ==
    /\ pc = "start"
    /\ exc = "none"
    /\ socket = NoSocket
    /\ retry_delay = 0
    /\ opened = 0
    /\ closed = {}
    /\ server = None
    /\ rank = -1
    /\ lifecycle = "Disconnected"
    /\ restart_on_error \in BOOLEAN
    /\ named \in BOOLEAN
    /\ ev = NoEvent
    /\ sleeping = 0
    /\ res = NoAck
    /\ joins = 0
    /\ auths = 0
    /\ loginFired = FALSE
    /\ failed = NoSocket
    /\ finallyRan = FALSE
    /\ conf = NoConf
    /\ calls = <<>>
    /\ IdleRegistry
    /\ IdleMirror
    /\ IdleChat

\* ----------------------------------------------------------- disconnect
\* DisconnectCleanup resetting the rank but keeping the handle.
DisconnectCleanupKeepsHandle ==
    /\ socket' = socket
    /\ rank' = -1
    /\ retry_delay' = retry_delay
    /\ failed' = failed

\* disconnect()'s finally block (lines 182-184).
DisconnectCleanup ==
    /\ socket' = NoSocket
    /\ rank' = -1
    /\ retry_delay' = 0
    /\ failed' = NoSocket

\* run() is over: its finally clause has run and disconnect() has returned.
Finish(cause) ==
    /\ pc' = "done"
    /\ exc' = cause
    /\ finallyRan' = TRUE
    /\ lifecycle' = "Terminated"

\* Unwind without the finally clause: run() ends with the session as it is.
UnwindSkipsFinally(cause) ==
    /\ pc' = "done"
    /\ exc' = cause
    /\ finallyRan' = FALSE
    /\ lifecycle' = "Terminated"
    /\ UNCHANGED closed

\* Lines 258-261: control leaves run()'s try block for `cause` with the
\* session (if any) still held; the finally clause calls disconnect(), which
\* returns at once without a session and else awaits close().
Unwind(cause) ==
    IF socket = NoSocket
    THEN Finish(cause) /\ UNCHANGED closed
    ELSE /\ pc' = "finally_close"
         /\ exc' = cause
         /\ finallyRan' = TRUE
         /\ closed' = closed \cup {socket}
         /\ UNCHANGED lifecycle

\* Where connect() goes on after its disconnect() (lines 189-192).
AfterDisconnect == IF server = None THEN "get_config" ELSE "socket_io"

\* login() is called (lines 196, 188, 174-178): connect() calls disconnect().
EnterLogin ==
    /\ res' = NoAck
    /\ auths' = 0
    /\ loginFired' = FALSE
    /\ IF socket = NoSocket
       THEN pc' = AfterDisconnect /\ UNCHANGED closed
       ELSE pc' = "connect_close" /\ closed' = closed \cup {socket}

\* ------------------------------------------------------------------ run
fixed ==
    <<restart_on_error, named, cfgVars, discVars, regVars, mirrorVars, chatVars>>

\* run() starts (lines 243-244).
RunStart ==
    /\ pc = "start"
    /\ EnterLogin
    /\ UNCHANGED <<exc, socket, retry_delay, opened, server, rank, lifecycle, ev,
                   sleeping, joins, failed, finallyRan, fixed>>

\* connect()'s disconnect(): close() returns or raises (lines 177-184, 189).
\* An exception of close() leaves login() and run(); run()'s finally clause
\* then finds no session.
ConnectCloseReturn ==
    /\ pc = "connect_close"
    /\ DisconnectCleanup
    /\ \E ok \in BOOLEAN :
          IF ok
          THEN pc' = AfterDisconnect /\ UNCHANGED <<exc, finallyRan, lifecycle>>
          ELSE Finish("CloseError")
    /\ UNCHANGED <<opened, closed, server, ev, sleeping, res, joins, auths,
                   loginFired, fixed>>

\* get_socket_config(): the fetch returns a document (lines 149-170).
GetConfigReturn ==
    /\ pc = "get_config"
    /\ \E c \in Confs :
          LET r == get_socket_config(c, server) IN
          /\ server' = r.server
          /\ IF r.raised = "none"
             THEN pc' = "socket_io" /\ UNCHANGED <<exc, finallyRan, lifecycle, closed>>
             ELSE Unwind(r.raised)
    /\ UNCHANGED <<socket, retry_delay, opened, rank, ev, sleeping, res, joins,
                   auths, loginFired, failed, fixed>>

\* get_socket_config(): the fetch itself fails (line 149).
GetConfigFails ==
    /\ pc = "get_config"
    /\ Unwind("GetError")
    /\ UNCHANGED <<socket, retry_delay, opened, server, rank, ev, sleeping, res,
                   joins, auths, loginFired, failed, fixed>>

\* connect(): the transport opens a session (line 192); login() emits
\* joinChannel on it (lines 199-207).
SocketIoReturn ==
    /\ pc = "socket_io"
    /\ opened < MaxSessions
    /\ \E d \in RetryDelays : retry_delay' = d
    /\ socket' = opened + 1
    /\ opened' = opened + 1
    /\ lifecycle' = "Connected"
    /\ joins' = 1
    /\ pc' = "join"
    /\ UNCHANGED <<exc, closed, server, rank, ev, sleeping, res, auths, loginFired,
                   failed, finallyRan, fixed>>

\* connect(): the transport fails to open a session (line 192).
SocketIoFails ==
    /\ pc = "socket_io"
    /\ Unwind("SocketIOError")
    /\ UNCHANGED <<socket, retry_delay, opened, server, rank, ev, sleeping, res,
                   joins, auths, loginFired, failed, fixed>>

\* JoinAck with login() returning, for the user without a name, before
\* line 239.
JoinAckAnonymousReturns ==
    /\ pc = "join"
    /\ \E t \in BOOLEAN :
          /\ res' = JoinAckOf(t)
          /\ IF t
             THEN Unwind("LoginError") /\ UNCHANGED <<auths, loginFired>>
             ELSE /\ IF named
                     THEN pc' = "auth" /\ auths' = 1 /\ lifecycle' = lifecycle
                     ELSE pc' = "recv" /\ auths' = auths
                          /\ lifecycle' = "Authenticated"
                  /\ UNCHANGED <<exc, finallyRan, closed, loginFired>>
    /\ UNCHANGED <<socket, retry_delay, opened, server, rank, ev, sleeping, joins,
                   failed, fixed>>

\* login(): the joinChannel emit returns (lines 199-213, 216, 239).
JoinAck ==
    /\ pc = "join"
    /\ \E t \in BOOLEAN :
          /\ res' = JoinAckOf(t)
          /\ IF t
             THEN Unwind("LoginError") /\ UNCHANGED <<auths, loginFired>>
             ELSE /\ IF named
                     THEN pc' = "auth" /\ auths' = 1 /\ UNCHANGED loginFired
                     ELSE pc' = "login_event" /\ loginFired' = TRUE /\ UNCHANGED auths
                  /\ UNCHANGED <<exc, finallyRan, lifecycle, closed>>
    /\ UNCHANGED <<socket, retry_delay, opened, server, rank, ev, sleeping, joins,
                   failed, fixed>>

\* login(): the joinChannel emit fails in the transport (line 199).
JoinFails ==
    /\ pc = "join"
    /\ Unwind("SocketIOError")
    /\ UNCHANGED <<socket, retry_delay, opened, server, rank, ev, sleeping, res,
                   joins, auths, loginFired, failed, fixed>>

\* login(): the login emit returns its acknowledgement (lines 216-239).
AuthAck ==
    /\ pc = "auth"
    /\ \E a \in AuthAcks :
          /\ res' = LoginAck(a)
          /\ IF a.success
             THEN /\ pc' = "login_event"
                  /\ loginFired' = TRUE
                  /\ UNCHANGED <<exc, finallyRan, lifecycle, closed, sleeping>>
             ELSE LET d == ThrottleDecision(ErrorOf(a)) IN
                  IF d.retry
                  THEN /\ sleeping' = d.delay
                       /\ pc' = "auth_sleep"
                       /\ UNCHANGED <<exc, finallyRan, lifecycle, closed, loginFired>>
                  ELSE Unwind("LoginError") /\ UNCHANGED <<sleeping, loginFired>>
    /\ UNCHANGED <<socket, retry_delay, opened, server, rank, ev, joins, auths,
                   failed, fixed>>

\* login(): the login emit fails in the transport (line 216).
AuthFails ==
    /\ pc = "auth"
    /\ Unwind("SocketIOError")
    /\ UNCHANGED <<socket, retry_delay, opened, server, rank, ev, sleeping, res,
                   joins, auths, loginFired, failed, fixed>>

\* login(): the throttle sleep ends and the loop emits login again
\* (lines 234, 214-216).
AuthSleepDone ==
    /\ pc = "auth_sleep"
    /\ auths < MaxAuth
    /\ sleeping' = 0
    /\ auths' = auths + 1
    /\ pc' = "auth"
    /\ UNCHANGED <<exc, socket, retry_delay, opened, closed, server, rank, lifecycle,
                   ev, res, joins, loginFired, failed, finallyRan, fixed>>

\* login(): the handlers of the synthetic 'login' event return or one of them
\* raises (line 239); on return login() is over and run() awaits recv().
LoginEventDone ==
    /\ pc = "login_event"
    /\ \E ok \in BOOLEAN :
          IF ok
          THEN /\ pc' = "recv"
               /\ lifecycle' = "Authenticated"
               /\ UNCHANGED <<exc, finallyRan, closed>>
          ELSE Unwind("HandlerError")
    /\ UNCHANGED <<socket, retry_delay, opened, server, rank, ev, sleeping, res,
                   joins, auths, loginFired, failed, fixed>>

\* run(): recv() returns an event and trigger() is called (lines 248, 257).
Recv ==
    /\ pc = "recv"
    /\ \E e \in RecvEvents : ev' = e
    /\ pc' = "dispatch"
    /\ UNCHANGED <<exc, socket, retry_delay, opened, closed, server, rank, lifecycle,
                   sleeping, res, joins, auths, loginFired, failed, finallyRan, fixed>>

\* RecvFails with the test of restart_on_error inverted.
RecvFailsInverted ==
    /\ pc = "recv"
    /\ failed' = socket
    /\ IF ~restart_on_error
       THEN /\ sleeping' = retry_delay
            /\ pc' = "retry_sleep"
            /\ lifecycle' = "Disconnected"
            /\ UNCHANGED <<exc, finallyRan, closed>>
       ELSE Unwind("break") /\ UNCHANGED sleeping
    /\ UNCHANGED <<socket, retry_delay, opened, server, rank, ev, res, joins, auths,
                   loginFired, fixed>>

\* run(): recv() raises SocketIOError (lines 249-254).
RecvFails ==
    /\ pc = "recv"
    /\ failed' = socket
    /\ IF restart_on_error
       THEN /\ sleeping' = retry_delay
            /\ pc' = "retry_sleep"
            /\ lifecycle' = "Disconnected"
            /\ UNCHANGED <<exc, finallyRan, closed>>
       ELSE Unwind("break") /\ UNCHANGED sleeping
    /\ UNCHANGED <<socket, retry_delay, opened, server, rank, ev, res, joins, auths,
                   loginFired, fixed>>

\* run(): the retry sleep ends and login() is called again (lines 254-255).
RetrySleepDone ==
    /\ pc = "retry_sleep"
    /\ sleeping' = 0
    /\ EnterLogin
    /\ UNCHANGED <<exc, socket, retry_delay, opened, server, rank, lifecycle, ev,
                   joins, failed, finallyRan, fixed>>

\* trigger() returned: run() awaits the next recv() (lines 257, 246-248).
NextRecv ==
    /\ pc' = "recv"
    /\ ev' = NoEvent
    /\ UNCHANGED <<exc, finallyRan, lifecycle, closed>>

\* _on_rank (lines 48-49).
DispatchRank ==
    /\ pc = "dispatch" /\ ev.name = "rank"
    /\ rank' = ev.data
    /\ NextRecv
    /\ UNCHANGED <<socket, retry_delay, opened, server, sleeping, res, joins, auths,
                   loginFired, failed, fixed>>

\* _on_kick (lines 80-81).
DispatchKick ==
    /\ pc = "dispatch" /\ ev.name = "kick"
    /\ Unwind("Kicked")
    /\ UNCHANGED <<socket, retry_delay, opened, server, rank, ev, sleeping, res,
                   joins, auths, loginFired, failed, fixed>>

\* _on_needPassword (lines 73-75).
DispatchNeedPassword ==
    /\ pc = "dispatch" /\ ev.name = "needPassword"
    /\ IF ev.data # 0
       THEN Unwind("LoginError") /\ UNCHANGED ev
       ELSE NextRecv
    /\ UNCHANGED <<socket, retry_delay, opened, server, rank, sleeping, res, joins,
                   auths, loginFired, failed, fixed>>

\* _on_noflood (lines 77-78): the attribute self.loger does not exist.
DispatchNoflood ==
    /\ pc = "dispatch" /\ ev.name = "noflood"
    /\ Unwind("AttributeError")
    /\ UNCHANGED <<socket, retry_delay, opened, server, rank, ev, sleeping, res,
                   joins, auths, loginFired, failed, fixed>>

\* An event with user handlers only: they return, or one raises (lines 286-292).
DispatchUser ==
    /\ pc = "dispatch" /\ ev.name = "chatMsg"
    /\ \E ok \in BOOLEAN :
          IF ok THEN NextRecv ELSE Unwind("HandlerError") /\ UNCHANGED ev
    /\ UNCHANGED <<socket, retry_delay, opened, server, rank, sleeping, res, joins,
                   auths, loginFired, failed, fixed>>

\* The awaits at which the task running run() can be cancelled.
SuspensionPoints ==
    {"connect_close", "get_config", "socket_io", "join", "auth", "auth_sleep",
     "login_event", "recv", "dispatch", "retry_sleep", "finally_close"}

\* CancelledError is thrown into the coroutine where it is suspended
\* (lines 258-261; inside a disconnect(), lines 182-184 run first).
Cancel ==
    /\ pc \in SuspensionPoints
    /\ sleeping' = 0
    /\ CASE pc = "connect_close" ->
              /\ DisconnectCleanup
              /\ Finish("CancelledError")
              /\ UNCHANGED closed
         [] pc = "finally_close" ->
              /\ DisconnectCleanup
              /\ pc' = "done"
              /\ exc' = "CancelledError"
              /\ lifecycle' = "Terminated"
              /\ UNCHANGED <<finallyRan, closed>>
         [] OTHER ->
              /\ Unwind("CancelledError")
              /\ UNCHANGED <<socket, retry_delay, rank, failed>>
    /\ UNCHANGED <<opened, server, ev, res, joins, auths, loginFired, fixed>>

\* run()'s finally clause: close() returns or raises; either way lines
\* 182-184 run and run() is over.  What close() raises is re-raised (line
\* 181) and leaves run() in place of what had made it leave its try block.
FinallyCloseReturn ==
    /\ pc = "finally_close"
    /\ DisconnectCleanup
    /\ pc' = "done"
    /\ \E ok \in BOOLEAN : exc' = IF ok THEN exc ELSE "CloseError"
    /\ lifecycle' = "Terminated"
    /\ UNCHANGED <<opened, closed, server, ev, sleeping, res, joins, auths,
                   loginFired, finallyRan, fixed>>

Next ==
    \/ RunStart \/ ConnectCloseReturn \/ GetConfigReturn \/ GetConfigFails
    \/ SocketIoReturn \/ SocketIoFails \/ JoinAck \/ JoinFails
    \/ AuthAck \/ AuthFails \/ AuthSleepDone \/ LoginEventDone
    \/ Recv \/ RecvFails \/ RetrySleepDone
    \/ DispatchRank \/ DispatchKick \/ DispatchNeedPassword \/ DispatchNoflood
    \/ DispatchUser \/ Cancel \/ FinallyCloseReturn

Spec == Init /\ [][Next]_vars

\* ------------------------------------------------- properties of run()
\* C1 as stated: in every reachable state of a bot driven by run(), the
\* transport handle is set if and only if the bot is Connected or
\* Authenticated; in particular it is unset while the bot is Disconnected
\* after a receive error (the retry sleep included) and once Terminated.
C1_HandleIffConnected ==
    (socket # NoSocket) <=> (lifecycle \in {"Connected", "Authenticated"})

\* C1 amended: the handle is set whenever the bot is Connected or
\* Authenticated and unset once it is Terminated; a Disconnected bot holds no
\* handle except the one of the session whose receive failed, which stays set
\* through the retry sleep until the disconnect() of the re-login (or of the
\* finally clause) has closed it.
C1_HandleWhileConnected ==
    /\ lifecycle \in {"Connected", "Authenticated"} => socket # NoSocket
    /\ lifecycle = "Terminated" => socket = NoSocket
    /\ (lifecycle = "Disconnected" /\ socket # NoSocket) =>
           /\ socket = failed
           /\ pc \in {"retry_sleep", "connect_close", "finally_close"}

C1_Witness ==
    /\ pc = "retry_sleep"
    /\ lifecycle = "Disconnected"
    /\ socket # NoSocket
    /\ sleeping = retry_delay

\* C2: whenever run() has ended, for whatever cause, its finally clause has
\* called disconnect(): the handle is unset and close() has been called on
\* every session the bot opened.
C2_DisconnectOnExit ==
    pc = "done" =>
        /\ finallyRan
        /\ socket = NoSocket
        /\ \A s \in 1..opened : s \in closed

C2_Witness ==
    /\ pc = "done"
    /\ exc = "Kicked"
    /\ opened = 2
    /\ closed = {1, 2}

\* C3: when recv() fails with a transport error, then with restart disabled
\* the loop is left and no login, receive or dispatch follows; with restart
\* enabled the bot sleeps the session's retry_delay, then login() runs again
\* (closing the old session, opening a new one) and receiving continues on
\* the new session.  A successful recv() is followed by the dispatch of the
\* event it returned.
C3_RecvFailure ==
    [][/\ (pc = "recv" /\ failed' # NoSocket /\ ~restart_on_error) =>
              (pc' = "finally_close" /\ exc' = "break")
       /\ exc # "none" => pc' \in {"finally_close", "done"}
       /\ (pc = "recv" /\ failed' # NoSocket /\ restart_on_error) =>
              /\ pc' = "retry_sleep"
              /\ sleeping' = retry_delay
              /\ socket' = socket
              /\ exc' = "none"
       /\ (pc = "retry_sleep" /\ pc' # "retry_sleep" /\ exc' = "none") =>
              /\ pc' = "connect_close"
              /\ closed' = closed \cup {socket}
              /\ sleeping' = 0
       /\ (pc = "connect_close" /\ pc' # "connect_close" /\ exc' = "none") =>
              (socket' = NoSocket /\ pc' = "socket_io")
       /\ (pc = "socket_io" /\ pc' # "socket_io" /\ exc' = "none") =>
              (socket' = opened + 1 /\ socket' \notin closed' /\ pc' = "join")
       /\ pc' = "recv" => (socket' = opened' /\ socket' \notin closed')
       /\ (pc = "recv" /\ pc' # "recv" /\ failed' = NoSocket /\ exc' = "none") =>
              (pc' = "dispatch" /\ ev' \in RecvEvents)
       /\ pc' = "dispatch" => ev' \in RecvEvents
      ]_vars

C3_Witness ==
    /\ pc = "dispatch"
    /\ restart_on_error
    /\ socket = 2
    /\ closed = {1}

\* C4: with restart-on-error enabled, a transport error never ends run(),
\* at whatever point of the lifecycle it occurs.
C4_TransportErrorNeverTerminates ==
    (pc = "done" /\ restart_on_error) => exc # "SocketIOError"

\* The step on which a login acknowledgement reporting failure is taken in.
AuthFailureTaken ==
    /\ pc = "auth"
    /\ pc' # "auth"
    /\ res'.kind = "login"
    /\ ~res'.success
    /\ exc' \notin {"CancelledError", "SocketIOError"}

\* C7: an authenticate failure whose error text matches the throttle pattern
\* with N seconds makes login() sleep max(N, 1) seconds (30 for the message
\* "guest logins are limited to 1 per 30 seconds.", 1 for N = 0) without
\* raising, and then emit login again on the same session: no reconnect, no
\* second joinChannel.
C7_ThrottleBackoff ==
    [][/\ \A n \in 0..MaxSeconds :
              (AuthFailureTaken /\ res'.hasError /\ res'.error = ThrottleMessage(n)) =>
                  /\ pc' = "auth_sleep"
                  /\ sleeping' = (IF n = 0 THEN 1 ELSE n)
                  /\ exc' = "none"
       /\ (AuthFailureTaken /\ res'.hasError /\ res'.error = MSG_SPEC_30) =>
              (pc' = "auth_sleep" /\ sleeping' = 30 /\ exc' = "none")
       /\ (pc = "auth_sleep" /\ pc' # "auth_sleep" /\ exc' = "none") =>
              /\ pc' = "auth"
              /\ auths' = auths + 1
              /\ socket' = socket
              /\ opened' = opened
              /\ closed' = closed
              /\ joins' = joins
      ]_vars

C7_Witness ==
    /\ pc = "auth"
    /\ auths = 2
    /\ joins = 1
    /\ res.hasError
    /\ res.error = ThrottleMessage(0)

\* C8: an authenticate failure whose error text does not match the throttle
\* pattern (a seconds value that is no integer included), or that carries no
\* error text, raises LoginError at once: no sleep, no further login request,
\* and the 'login' event is not fired.
C8_LoginErrorAtOnce ==
    [][/\ (AuthFailureTaken /\ (~res'.hasError \/ res'.error \in OtherMessages)) =>
              /\ exc' = "LoginError"
              /\ pc' = "finally_close"
              /\ sleeping' = 0
              /\ auths' = auths
              /\ ~loginFired'
       /\ exc # "none" =>
              (auths' = auths /\ loginFired' = loginFired /\ sleeping' = 0)
      ]_vars

C8_Witness ==
    /\ pc = "done"
    /\ exc = "LoginError"
    /\ res.kind = "login"
    /\ res.hasError
    /\ res.error = MSG_ABC
    /\ auths = 1
    /\ ~loginFired

\* --------------------------------------- get_socket_config() on its own
\* A bot without a cached endpoint is about to parse the document conf.
InitConfig ==
    /\ pc = "call"
    /\ exc = "none"
    /\ socket = NoSocket
    /\ retry_delay = 0
    /\ opened = 0
    /\ closed = {}
    /\ server = None
    /\ rank = -1
    /\ lifecycle = "Disconnected"
    /\ restart_on_error = TRUE
    /\ named = TRUE
    /\ ev = NoEvent
    /\ sleeping = 0
    /\ res = NoAck
    /\ joins = 0
    /\ auths = 0
    /\ loginFired = FALSE
    /\ failed = NoSocket
    /\ finallyRan = FALSE
    /\ conf \in Confs
    /\ calls = <<>>
    /\ IdleRegistry
    /\ IdleMirror
    /\ IdleChat

\* get_socket_config() (lines 150-170) returns or raises.
GetSocketConfigCall ==
    /\ pc = "call"
    /\ LET r == get_socket_config(conf, server) IN
       /\ server' = r.server
       /\ exc' = r.raised
    /\ pc' = "returned"
    /\ UNCHANGED <<socket, retry_delay, opened, closed, rank, lifecycle, ev, sleeping,
                   res, joins, auths, loginFired, failed, finallyRan, fixed>>

NextConfig == GetSocketConfigCall

SpecConfig == InitConfig /\ [][NextConfig]_vars

\* The entries of the list that are flagged secure.
SecureEntries(servers) == {k \in 1..Len(servers) : servers[k].secure = "true"}

FirstOf(S) == CHOOSE k \in S : \A m \in S : k <= m

\* C9, for the documents in which every entry carries a url: an error field
\* gives ConfigError; else the endpoint is the url of the first entry flagged
\* secure, wherever it stands and whatever fields the entries before it
\* carry; without such an entry it is the url of the first entry; an empty or
\* absent list gives ConfigError; on failure the cached endpoint stays unset.
C9_FirstSecureWins ==
    (pc = "returned" /\ \A k \in 1..Len(conf.servers) : conf.servers[k].url # "absent") =>
        IF conf.error \/ ~conf.hasServers \/ Len(conf.servers) = 0
        THEN exc = "SocketConfigError" /\ server = None
        ELSE /\ exc = "none"
             /\ server = SOCKET_IO_URL(
                    IF SecureEntries(conf.servers) # {}
                    THEN conf.servers[FirstOf(SecureEntries(conf.servers))].url
                    ELSE conf.servers[1].url)

\* ---------------------------------------------- disconnect() on its own
\* A caller that connects, lets rank events arrive, and calls disconnect()
\* up to MaxCalls times in a row.
InitDisconnect ==
    /\ pc = "idle"
    /\ exc = "none"
    /\ socket = NoSocket
    /\ retry_delay = 0
    /\ opened = 0
    /\ closed = {}
    /\ server = None
    /\ rank \in -1..MaxRank
    /\ lifecycle = "Disconnected"
    /\ restart_on_error = TRUE
    /\ named = TRUE
    /\ ev = NoEvent
    /\ sleeping = 0
    /\ res = NoAck
    /\ joins = 0
    /\ auths = 0
    /\ loginFired = FALSE
    /\ failed = NoSocket
    /\ finallyRan = FALSE
    /\ conf = NoConf
    /\ calls = <<>>
    /\ IdleRegistry
    /\ IdleMirror
    /\ IdleChat

discFixed ==
    <<exc, lifecycle, restart_on_error, named, ev, sleeping, res, joins, auths,
      loginFired, finallyRan, cfgVars, regVars, mirrorVars, chatVars>>

\* A connect() call that succeeds (lines 188-192): the session held, if any,
\* is closed first; the endpoint is resolved when none is cached.
ConnectCall ==
    /\ pc = "idle"
    /\ opened < MaxSessions
    /\ closed' = IF socket = NoSocket THEN closed ELSE closed \cup {socket}
    /\ rank' = IF socket = NoSocket THEN rank ELSE -1
    /\ \E u \in Urls : server' = IF server = None THEN SOCKET_IO_URL(u) ELSE server
    /\ \E d \in RetryDelays : retry_delay' = d
    /\ socket' = opened + 1
    /\ opened' = opened + 1
    /\ calls' = <<>>
    /\ UNCHANGED <<pc, failed, discFixed>>

\* A rank event reaches _on_rank of a connected bot (lines 48-49).
RankEvent ==
    /\ pc = "idle"
    /\ socket # NoSocket
    /\ \E r \in 0..MaxRank : rank' = r
    /\ UNCHANGED <<pc, socket, retry_delay, opened, closed, server, failed, calls,
                   discFixed>>

\* What a disconnect() call did: whether it held a session, whether close()
\* raised, whether the call raised, and the handle it left.
\* Lines 174-175: no session, return.
ReturnedAtOnce ==
    [held |-> FALSE, closeFailed |-> FALSE, raised |-> FALSE, handle |-> socket]

\* CloseOutcome swallowing the exception of close().
CloseOutcomeSwallows(ok) ==
    [held |-> TRUE, closeFailed |-> ~ok, raised |-> FALSE, handle |-> socket']

\* Lines 177-184: close() returned (ok) or raised, and the except clause
\* re-raises.
CloseOutcome(ok) ==
    [held |-> TRUE, closeFailed |-> ~ok, raised |-> ~ok, handle |-> socket']

\* disconnect() without the test of line 174: close() is called on None.
DisconnectCallUnguarded ==
    /\ pc = "idle"
    /\ Len(calls) < MaxCalls
    /\ IF socket = NoSocket
       THEN /\ calls' = Append(calls, [held |-> FALSE, closeFailed |-> FALSE,
                                       raised |-> TRUE, handle |-> socket])
            /\ UNCHANGED <<pc, closed>>
       ELSE /\ pc' = "close"
            /\ closed' = closed \cup {socket}
            /\ UNCHANGED calls
    /\ UNCHANGED <<socket, retry_delay, opened, server, rank, failed, discFixed>>

\* disconnect() is called (lines 174-178).
DisconnectCall ==
    /\ pc = "idle"
    /\ Len(calls) < MaxCalls
    /\ IF socket = NoSocket
       THEN /\ calls' = Append(calls, ReturnedAtOnce)
            /\ UNCHANGED <<pc, closed>>
       ELSE /\ pc' = "close"
            /\ closed' = closed \cup {socket}
            /\ UNCHANGED calls
    /\ UNCHANGED <<socket, retry_delay, opened, server, rank, failed, discFixed>>

\* close() returns or raises (lines 178-184).
DisconnectCloseReturn ==
    /\ pc = "close"
    /\ DisconnectCleanup
    /\ \E ok \in BOOLEAN : calls' = Append(calls, CloseOutcome(ok))
    /\ pc' = "idle"
    /\ UNCHANGED <<opened, closed, server, discFixed>>

NextDisconnect ==
    \/ ConnectCall \/ RankEvent \/ DisconnectCall \/ DisconnectCloseReturn

SpecDisconnect == InitDisconnect /\ [][NextDisconnect]_vars

\* C5 as stated: of disconnect() calls made in sequence none raises,
\* whatever close() does, and each leaves the handle unset.
C5_NeverRaises ==
    \A i \in 1..Len(calls) : ~calls[i].raised /\ calls[i].handle = NoSocket

\* C5 amended: of disconnect() calls made in sequence each leaves the handle
\* unset; the first raises exactly when it held a session whose close()
\* raised; the second and later ones find no session and never raise.
C5_SecondNeverRaises ==
    \A i \in 1..Len(calls) :
        /\ calls[i].handle = NoSocket
        /\ calls[i].raised <=> (calls[i].held /\ calls[i].closeFailed)
        /\ i >= 2 => (~calls[i].held /\ ~calls[i].raised)

C5_Witness ==
    /\ Len(calls) = 2
    /\ calls[1].held /\ calls[1].raised
    /\ ~calls[2].raised
    /\ socket = NoSocket

\* C6: disconnect() on a connected bot ends with the handle cleared and the
\* rank -1, also when close() raises, and then the exception reaches the
\* caller; on a bot that is not connected it changes neither handle, rank
\* nor cached endpoint, calls nothing on the transport and does not raise.
C6_DisconnectCleansUp ==
    [][/\ (pc = "close" /\ pc' = "idle") =>
              /\ socket \in closed
              /\ socket' = NoSocket
              /\ rank' = -1
              /\ Len(calls') = Len(calls) + 1
              /\ calls'[Len(calls')].raised <=> calls'[Len(calls')].closeFailed
       /\ (pc = "idle" /\ socket = NoSocket /\ Len(calls') = Len(calls) + 1) =>
              /\ ~calls'[Len(calls')].raised
              /\ pc' = "idle"
              /\ UNCHANGED <<socket, rank, server, closed>>
      ]_vars

C6_Witness ==
    /\ pc = "idle"
    /\ Len(calls) = 1
    /\ calls[1].held /\ calls[1].closeFailed /\ calls[1].raised
    /\ socket = NoSocket
    /\ rank = -1
    /\ server # None

\* ------------------------------------------------- the handler registry
RegEvents == {"rank", "chatMsg"}
\* The handlers the user registers and removes, and all handlers there are.
Handlers == {"h1", "h2"}
AllHandlers == Handlers \cup {"_on_rank"}

\* The *handlers arguments of one on() or off() call.
HandlerArgs == SeqsUpTo(Handlers, MaxArgs) \ {<<>>}

InList(h, l) == \E i \in 1..Len(l) : l[i] = h

\* list.remove(h): the first occurrence goes; ValueError (caught at line 279)
\* leaves the list as it is.
Remove(l, h) ==
    IF ~InList(h, l) THEN l
    ELSE LET k == CHOOSE k \in 1..Len(l) : l[k] = h /\ \A m \in 1..(k - 1) : l[m] # h
         IN SubSeq(l, 1, k - 1) \o SubSeq(l, k + 1, Len(l))

\* OnList appending whatever it is given.
OnListNoDedupe(l, hs) == l \o hs

\* on(): the loop of lines 265-270 over the arguments hs.
RECURSIVE OnList(_, _)
OnList(l, hs) ==
    IF hs = <<>> THEN l
    ELSE OnList(IF InList(Head(hs), l) THEN l ELSE Append(l, Head(hs)), Tail(hs))

\* The handler on() last logged as existing (line 270), or <<>>.
RECURSIVE LastRejected(_, _, _)
LastRejected(l, hs, last) ==
    IF hs = <<>> THEN last
    ELSE IF InList(Head(hs), l)
         THEN LastRejected(l, Tail(hs), <<Head(hs)>>)
         ELSE LastRejected(Append(l, Head(hs)), Tail(hs), last)

\* off(): the loop of lines 275-280 over the arguments hs.
RECURSIVE OffList(_, _)
OffList(l, hs) ==
    IF hs = <<>> THEN l ELSE OffList(Remove(l, Head(hs)), Tail(hs))

regFixed == <<runVars, cfgVars, discVars, mirrorVars, chatVars>>

\* Whether a change of the registry falls into a trigger() call on event e.
DuringTrigger(e) == trigIdx >= 0 /\ trigEvent = e

\* on(event, *handlers) (lines 263-271).
On ==
    \E e \in RegEvents, hs \in HandlerArgs :
        /\ handlers' = [handlers EXCEPT ![e] = OnList(@, hs)]
        /\ dupRejected' =
              LET last == LastRejected(handlers[e], hs, <<>>) IN
              IF last = <<>> THEN dupRejected ELSE <<e>> \o last
        /\ mutated' = (mutated \/ (DuringTrigger(e) /\ handlers' # handlers))
        /\ UNCHANGED <<trigEvent, trigIdx, invoked, stopped, kept, regFixed>>

\* off(event, *handlers) (lines 273-281).
Off ==
    \E e \in RegEvents, hs \in HandlerArgs :
        /\ handlers' = [handlers EXCEPT ![e] = OffList(@, hs)]
        /\ mutated' = (mutated \/ (DuringTrigger(e) /\ handlers' # handlers))
        /\ kept' = IF DuringTrigger(e)
                   THEN {h \in kept : InList(h, handlers'[e])}
                   ELSE kept
        /\ UNCHANGED <<trigEvent, trigIdx, invoked, stopped, dupRejected, regFixed>>

\* trigger(event, data) is called: the for loop takes an iterator of the
\* event's list (lines 285-286).
TriggerStart ==
    /\ trigIdx = -1
    /\ \E e \in RegEvents :
          /\ trigEvent' = e
          /\ kept' = {h \in AllHandlers : InList(h, handlers[e])}
    /\ trigIdx' = 0
    /\ invoked' = <<>>
    /\ mutated' = FALSE
    /\ stopped' = "no"
    /\ UNCHANGED <<handlers, dupRejected, regFixed>>

\* TriggerStep going on to the next handler after a truthy return.
TriggerStepIgnoresStop ==
    /\ trigIdx >= 0
    /\ trigIdx < Len(handlers[trigEvent])
    /\ Len(invoked) < MaxInvoked
    /\ invoked' = Append(invoked, handlers[trigEvent][trigIdx + 1])
    /\ \E r \in {"falsy", "truthy", "raised"} :
          IF r \in {"falsy", "truthy"}
          THEN trigIdx' = trigIdx + 1 /\ stopped' = (IF r = "truthy" THEN r ELSE stopped)
          ELSE trigIdx' = -1 /\ stopped' = r
    /\ UNCHANGED <<handlers, trigEvent, mutated, dupRejected, kept, regFixed>>

\* The iterator yields the handler at its index of the list as it is now; the
\* handler runs and returns a falsy or a truthy value, or raises
\* (lines 286-292).
TriggerStep ==
    /\ trigIdx >= 0
    /\ trigIdx < Len(handlers[trigEvent])
    /\ Len(invoked) < MaxInvoked
    /\ invoked' = Append(invoked, handlers[trigEvent][trigIdx + 1])
    /\ \E r \in {"falsy", "truthy", "raised"} :
          IF r = "falsy"
          THEN trigIdx' = trigIdx + 1 /\ UNCHANGED stopped
          ELSE trigIdx' = -1 /\ stopped' = r
    /\ UNCHANGED <<handlers, trigEvent, mutated, dupRejected, kept, regFixed>>

\* The iterator is exhausted and trigger() returns (line 286).
TriggerReturn ==
    /\ trigIdx >= 0
    /\ trigIdx >= Len(handlers[trigEvent])
    /\ trigIdx' = -1
    /\ UNCHANGED <<handlers, trigEvent, invoked, mutated, stopped, dupRejected,
                   kept, regFixed>>

NextHandlers == On \/ Off \/ TriggerStart \/ TriggerStep \/ TriggerReturn

\* Bot.__init__ (lines 43-46) as seen by the callers of on, off and trigger.
InitHandlers ==
    /\ Init
    /\ restart_on_error = TRUE
    /\ named = TRUE

SpecHandlers == InitHandlers /\ [][NextHandlers]_vars

NoDuplicates(l) == \A i, j \in 1..Len(l) : i # j => l[i] # l[j]

Count(l, h) == Cardinality({i \in 1..Len(l) : l[i] = h})

\* C10: after any sequence of on()/off() calls no event's list holds the
\* same handler twice; a trigger() call during which the registry does not
\* change invokes no handler twice and, when no handler cuts it short,
\* every registered handler exactly once, however often it was registered;
\* and a step that removes a handler from a list (off) leaves it not
\* registered.
C10_RegistrationIdempotent ==
    /\ [](\A e \in RegEvents : NoDuplicates(handlers[e]))
    /\ [][/\ (trigIdx >= 0 /\ trigIdx' = -1 /\ ~mutated') =>
                 \A h \in AllHandlers :
                     /\ Count(invoked', h) <= 1
                     /\ (stopped' = "no" /\ InList(h, handlers[trigEvent])) =>
                            Count(invoked', h) = 1
          /\ \A e \in RegEvents, h \in AllHandlers :
                 Count(handlers'[e], h) < Count(handlers[e], h) =>
                     ~InList(h, handlers'[e])
         ]_vars

C10_Witness ==
    /\ dupRejected = <<"chatMsg", "h1">>
    /\ handlers["chatMsg"] = <<"h1">>
    /\ trigIdx = -1
    /\ trigEvent = "chatMsg"
    /\ invoked = <<"h1">>
    /\ stopped = "no"
    /\ ~mutated

\* C11: a trigger() call during which the registry does not change invokes
\* the event's handlers in registration order, starting from the first: what
\* it has invoked is always the head of the event's list; a call that no
\* handler cut short has invoked the whole list, and none when the list is
\* empty; a truthy return ends the call at once, with every handler before
\* it invoked and none after it; no step of trigger() changes the registry,
\* so the next call of the event starts again at the first handler.
IsHeadOf(s, l) == Len(s) <= Len(l) /\ s = SubSeq(l, 1, Len(s))

C11_TriggerOrder ==
    [][/\ (trigIdx' >= 0 /\ ~mutated') =>
              /\ IsHeadOf(invoked', handlers'[trigEvent'])
              /\ Len(invoked') = trigIdx'
       /\ (trigIdx >= 0 /\ trigIdx' = -1 /\ ~mutated') =>
              /\ IsHeadOf(invoked', handlers'[trigEvent'])
              /\ stopped' = "no" => invoked' = handlers'[trigEvent']
              /\ handlers[trigEvent] = <<>> => invoked' = <<>>
              /\ stopped' = "truthy" =>
                     /\ Len(invoked') = trigIdx + 1
                     /\ invoked' = SubSeq(handlers'[trigEvent'], 1, trigIdx + 1)
       /\ (trigIdx = -1 /\ trigIdx' >= 0) => (trigIdx' = 0 /\ invoked' = <<>>)
       /\ (trigIdx >= 0 /\ (invoked' # invoked \/ trigIdx' # trigIdx)) =>
              handlers' = handlers
      ]_vars

C11_Witness ==
    /\ handlers["rank"] = <<"_on_rank", "h1", "h2">>
    /\ trigEvent = "rank"
    /\ trigIdx = -1
    /\ invoked = <<"_on_rank", "h1">>
    /\ stopped = "truthy"
    /\ ~mutated

\* C19: when a trigger() call ends without a truthy return or an exception,
\* every handler that has been registered for the event from the start of
\* the call to its end has been invoked exactly once, and no handler has
\* been invoked twice, also when on() and off() changed the event's list
\* during the call.
C19_NoneSkippedNoneTwice ==
    [][(trigIdx >= 0 /\ trigIdx' = -1 /\ stopped' = "no") =>
           /\ \A h \in kept' : Count(invoked', h) = 1
           /\ \A h \in AllHandlers : Count(invoked', h) <= 1
      ]_vars

\* --------------------------------------- chat_message() beside run()
\* The arguments of a chat_message() call: to is None or a user name, meta is
\* None or a dict that is not empty.
ChatRecipients == {"None", "bob"}
ChatMetas == {"None", "m"}

\* channel.check_permission('chat', user) (line 297) returns, or raises when
\* the channel does not allow the user to chat.
CheckPermissionOutcomes == {"ok", "ChannelPermissionError"}

\* The bot's own user as the constructor got it: muted, shadow-muted or not.
ChatUsers ==
    {[DefaultUser EXCEPT !.muted = m, !.smuted = sm] :
        m \in {"false", "true"}, sm \in {"false", "true"}}

Muted(u) == u.muted = "true" \/ u.smuted = "true"

\* ChatEvent testing the mute before the recipient.
ChatEventMuteFirst(to, u) ==
    IF Muted(u) THEN "raise" ELSE IF to # "None" THEN "pm" ELSE "chatMsg"

\* Lines 300-306: the event to emit, or "raise" for the muted user.
ChatEvent(to, u) ==
    IF to # "None" THEN "pm" ELSE IF Muted(u) THEN "raise" ELSE "chatMsg"

\* Line 299: meta if meta else {}.
ChatMeta(meta) == IF meta = "None" THEN "{}" ELSE meta

chatFixed == <<runVars, cfgVars, discVars, regVars, mirrorVars>>

\* chat_message() raises before any await.
ChatRaise(e) ==
    /\ chatPc' = "done"
    /\ chatExc' = e

\* chat_message(msg, to, meta) is called and runs to its first await or to
\* an exception (lines 296-312); self.socket.emit is looked up on the
\* handle as it is then.
ChatCall ==
    /\ chatPc \in {"idle", "done"}
    /\ \E to \in ChatRecipients, meta \in ChatMetas,
          perm \in CheckPermissionOutcomes :
          /\ chatArgs' = [to |-> to, meta |-> meta, perm |-> perm]
          /\ IF perm # "ok"
             THEN ChatRaise(perm) /\ emitted' = NoEmit
             ELSE IF ChatEvent(to, user) = "raise"
             THEN ChatRaise("ChannelPermissionError") /\ emitted' = NoEmit
             ELSE /\ emitted' = [ev |-> ChatEvent(to, user),
                                 meta |-> ChatMeta(meta), handle |-> socket]
                  /\ IF socket = NoSocket
                     THEN ChatRaise("AttributeError")
                     ELSE chatPc' = "emit" /\ chatExc' = "none"
    /\ UNCHANGED chatFixed

\* The emit returns no acknowledgement in time or a noflood acknowledgement,
\* or fails in the transport (lines 308-315).
ChatEmitReturn ==
    /\ chatPc = "emit"
    /\ \E r \in {"falsy", "truthy", "SocketIOError"} :
          chatExc' = CASE r = "falsy" -> "none"
                       [] r = "truthy" -> "ChannelPermissionError"
                       [] OTHER -> r
    /\ chatPc' = "done"
    /\ UNCHANGED <<chatArgs, emitted, chatFixed>>

\* run() of a bot whose user has no name (login() emits no login request),
\* and the task calling chat_message().
NextChat ==
    \/ RunStart \/ ConnectCloseReturn \/ GetConfigReturn \/ GetConfigFails
    \/ SocketIoReturn \/ SocketIoFails \/ JoinAck \/ JoinFails \/ LoginEventDone
    \/ Recv \/ RecvFails \/ RetrySleepDone
    \/ DispatchRank \/ DispatchKick \/ DispatchNeedPassword \/ DispatchNoflood
    \/ DispatchUser \/ Cancel \/ FinallyCloseReturn
    \/ ChatCall \/ ChatEmitReturn

\* Bot.__init__ with a user given that has no name, and restart_on_error
\* left True.
InitChat ==
    /\ pc = "start"
    /\ exc = "none"
    /\ socket = NoSocket
    /\ retry_delay = 0
    /\ opened = 0
    /\ closed = {}
    /\ server = None
    /\ rank = -1
    /\ lifecycle = "Disconnected"
    /\ restart_on_error = TRUE
    /\ named = FALSE
    /\ ev = NoEvent
    /\ sleeping = 0
    /\ res = NoAck
    /\ joins = 0
    /\ auths = 0
    /\ loginFired = FALSE
    /\ failed = NoSocket
    /\ finallyRan = FALSE
    /\ conf = NoConf
    /\ calls = <<>>
    /\ IdleRegistry
    /\ user \in ChatUsers
    /\ users = <<>>
    /\ payload = <<>>
    /\ IdleChat

SpecChat == InitChat /\ [][NextChat]_vars

\* A step in which a chat_message() call starts, on a bot holding a session.
ChatCalled == chatPc # "emit" /\ chatVars' # chatVars /\ socket # NoSocket

\* C12 as stated: a chat_message() call made while the user is muted or
\* shadow-muted issues no emit on the session held, with or without a
\* recipient, and raises ChannelPermissionError.
C12_MutedNeverEmits ==
    [][(ChatCalled /\ Muted(user)) =>
           /\ chatPc' # "emit"
           /\ emitted' = NoEmit
           /\ chatExc' = "ChannelPermissionError"
      ]_vars

\* C12 amended: a chat_message() call without a recipient made while the
\* user is muted or shadow-muted issues no emit and raises
\* ChannelPermissionError; with a recipient the mute is not looked at: the
\* call that the channel permits emits pm on the session held.
C12_MutedBroadcastNeverEmits ==
    [][/\ (ChatCalled /\ Muted(user) /\ chatArgs'.to = "None") =>
              /\ chatPc' # "emit"
              /\ emitted' = NoEmit
              /\ chatExc' = "ChannelPermissionError"
       /\ (ChatCalled /\ chatArgs'.to # "None" /\ chatArgs'.perm = "ok") =>
              /\ chatPc' = "emit"
              /\ chatExc' = "none"
              /\ emitted' = [ev |-> "pm", meta |-> ChatMeta(chatArgs'.meta),
                             handle |-> socket]
       /\ (ChatCalled /\ ~Muted(user) /\ chatArgs'.to = "None"
             /\ chatPc' = "emit") =>
              emitted'.ev = "chatMsg"
      ]_vars

C12_Witness ==
    /\ user.smuted = "true"
    /\ socket # NoSocket
    /\ lifecycle = "Authenticated"
    /\ chatArgs.to = "None"
    /\ chatPc = "done"
    /\ chatExc = "ChannelPermissionError"
    /\ emitted = NoEmit

\* C20: a chat_message() call that passed its permission and mute checks,
\* made once run() has opened a session, finds the handle present when it
\* reaches its emit, whatever run() is doing then or whether it has ended.
C20_EmitHasHandle ==
    [][(chatPc # "emit" /\ chatVars' # chatVars /\ opened >= 1
        /\ emitted'.ev # "none") =>
           /\ socket # NoSocket
           /\ emitted'.handle # NoSocket
           /\ chatExc' # "AttributeError"
      ]_vars

\* --------------------------------------- the userlist and addUser events
\* The name of the bot's own user, and the names the server lists.
LocalName == "bot"
PayloadNames == {LocalName, "bob", "eve"}
PayloadRanks == {0, 2}

\* The profile and meta dicts of a user payload: one without keys, one with.
ProfilePayloads ==
    {[image |-> "absent", text |-> "absent"], [image |-> "i.png", text |-> "hi"]}
MetaPayloads ==
    {[afk |-> "absent", muted |-> "absent", smuted |-> "absent", ip |-> "absent",
      aliases |-> "absent"],
     [afk |-> "true", muted |-> "true", smuted |-> "absent", ip |-> "ip1",
      aliases |-> "[b]"]}

\* The dicts the server sends for a user: name, rank, profile and meta.
UserPayloads ==
    {[name |-> n, rank |-> r, profile |-> p, meta |-> m] :
        n \in PayloadNames, r \in PayloadRanks, p \in ProfilePayloads,
        m \in MetaPayloads}

\* dict.get(key, default) on the value v the dict has for the key.
Get(v, default) == IF v = "absent" THEN default ELSE v

\* The profile setter (user.py lines 70-75).
SetProfile(u, profile) ==
    [u EXCEPT !.image = Get(profile.image, ""), !.text = Get(profile.text, "")]

\* The meta setter (user.py lines 87-95).
SetMeta(u, meta) ==
    [u EXCEPT !.afk = Get(meta.afk, "false"),
              !.muted = Get(meta.muted, "false"),
              !.smuted = Get(meta.smuted, "false"),
              !.ip = Get(meta.ip, "None"),
              !.aliases = Get(meta.aliases, "[]")]

\* An element of channel.users: the bot's own user object, or another User
\* object with its fields.
UserObject(obj, name, r, u) ==
    [obj |-> obj, name |-> name, rank |-> r, image |-> u.image, text |-> u.text,
     afk |-> u.afk, muted |-> u.muted, smuted |-> u.smuted, ip |-> u.ip,
     aliases |-> u.aliases]
SelfRef == UserObject("self", LocalName, -1, DefaultUser)

\* User(**data) (user.py lines 19-33, 97-107).
NewUser(data) ==
    UserObject("new", data.name, data.rank,
               SetMeta(SetProfile(DefaultUser, data.profile), data.meta))

\* channel.add_user(user): the user joins the channel's collection.
ChannelAddUser(l, u) == Append(l, u)

\* _add_user(data) (bot.py lines 83-88) on the state st: the bot's own user,
\* its rank and channel.users.
AddUser(st, data) ==
    IF data.name = LocalName
    THEN [user |-> SetMeta(SetProfile(st.user, data.profile), data.meta),
          rank |-> data.rank,
          users |-> ChannelAddUser(st.users, SelfRef)]
    ELSE [st EXCEPT !.users = ChannelAddUser(@, NewUser(data))]

\* The loop of lines 92-93.
RECURSIVE AddUsers(_, _)
AddUsers(st, datas) ==
    IF datas = <<>> THEN st ELSE AddUsers(AddUser(st, Head(datas)), Tail(datas))

\* The data of a userlist event: at most MaxUsers payloads, each user once.
UserLists ==
    {l \in SeqsUpTo(UserPayloads, MaxUsers) :
        \A i, j \in 1..Len(l) : i # j => l[i].name # l[j].name}

\* What channel.users holds when the event arrives.
PriorUsers ==
    LET bob == NewUser([name |-> "bob", rank |-> 0,
                        profile |-> [image |-> "absent", text |-> "absent"],
                        meta |-> [afk |-> "absent", muted |-> "absent",
                                  smuted |-> "absent", ip |-> "absent",
                                  aliases |-> "absent"]])
    IN {<<>>, <<SelfRef>>, <<bob>>, <<SelfRef, bob>>}

mirrorFixed ==
    <<exc, socket, retry_delay, opened, closed, server, lifecycle,
      restart_on_error, named, ev, sleeping, res, joins, auths, loginFired,
      failed, finallyRan, cfgVars, discVars, regVars, chatVars>>

\* OnUserlist adding to the users the channel holds already.
OnUserlistKeepsOld ==
    /\ pc = "idle"
    /\ \E data \in UserLists :
          LET st == AddUsers([user |-> user, rank |-> rank, users |-> users], data)
          IN /\ user' = st.user
             /\ rank' = st.rank
             /\ users' = st.users
             /\ payload' = data
    /\ pc' = "userlist"
    /\ UNCHANGED mirrorFixed

\* _on_userlist (bot.py lines 90-94).
OnUserlist ==
    /\ pc = "idle"
    /\ \E data \in UserLists :
          LET st == AddUsers([user |-> user, rank |-> rank, users |-> <<>>], data)
          IN /\ user' = st.user
             /\ rank' = st.rank
             /\ users' = st.users
             /\ payload' = data
    /\ pc' = "userlist"
    /\ UNCHANGED mirrorFixed

\* _on_addUser (bot.py lines 96-98).
OnAddUser ==
    /\ pc = "idle"
    /\ \E data \in UserPayloads :
          LET st == AddUser([user |-> user, rank |-> rank, users |-> users], data)
          IN /\ user' = st.user
             /\ rank' = st.rank
             /\ users' = st.users
             /\ payload' = <<data>>
    /\ pc' = "addUser"
    /\ UNCHANGED mirrorFixed

NextMirror == OnUserlist \/ OnAddUser

\* A bot named LocalName whose channel holds some users when an event of
\* the user list arrives.
InitMirror ==
    /\ pc = "idle"
    /\ exc = "none"
    /\ socket = NoSocket
    /\ retry_delay = 0
    /\ opened = 0
    /\ closed = {}
    /\ server = None
    /\ rank \in -1..MaxRank
    /\ lifecycle = "Disconnected"
    /\ restart_on_error = TRUE
    /\ named = TRUE
    /\ ev = NoEvent
    /\ sleeping = 0
    /\ res = NoAck
    /\ joins = 0
    /\ auths = 0
    /\ loginFired = FALSE
    /\ failed = NoSocket
    /\ finallyRan = FALSE
    /\ conf = NoConf
    /\ calls = <<>>
    /\ IdleRegistry
    /\ user \in ChatUsers
    /\ users \in PriorUsers
    /\ payload = <<>>
    /\ IdleChat

SpecMirror == InitMirror /\ [][NextMirror]_vars

\* The bot's own user after update(**data): rank, profile and meta as the
\* payload gives them, a key the payload's dict lacks at its default.
MirrorsPayload(data) ==
    /\ rank' = data.rank
    /\ user'.image = Get(data.profile.image, "")
    /\ user'.text = Get(data.profile.text, "")
    /\ user'.afk = Get(data.meta.afk, "false")
    /\ user'.muted = Get(data.meta.muted, "false")
    /\ user'.smuted = Get(data.meta.smuted, "false")
    /\ user'.ip = Get(data.meta.ip, "None")
    /\ user'.aliases = Get(data.meta.aliases, "[]")

\* C13: a userlist event with N payloads leaves exactly N users in the
\* channel, whatever it held before, the i-th standing for the i-th payload;
\* the payload named like the bot's own user is stood for by that user
\* object itself, not by a new one, and that user's rank, profile and meta
\* are then the payload's; without such a payload they stay as they were.
C13_UserlistMirrors ==
    [][(pc = "idle" /\ pc' = "userlist") =>
           /\ Len(users') = Len(payload')
           /\ \A i \in 1..Len(payload') :
                  IF payload'[i].name = LocalName
                  THEN users'[i] = SelfRef /\ MirrorsPayload(payload'[i])
                  ELSE users'[i] = NewUser(payload'[i])
           /\ (\A i \in 1..Len(payload') : payload'[i].name # LocalName) =>
                  UNCHANGED <<user, rank>>
      ]_vars

C13_Witness ==
    /\ pc = "userlist"
    /\ Len(payload) = 2
    /\ payload[1].name = "bob"
    /\ payload[2].name = LocalName
    /\ payload[2].meta.muted = "true"
    /\ payload[2].profile.image = "absent"
    /\ Len(users) = 2
    /\ users[2].obj = "self"
    /\ users[1].obj = "new"
    /\ rank = 2
    /\ user.muted = "true"
    /\ user.image = ""

\* ------------------------------- run() dispatching through the registry
\* The events recv() returns, and the internal handler __init__ registers
\* for each (lines 44-46), if any.
LoopEvents == {"rank", "needPassword", "kick", "noflood", "chatMsg"}
InternalOf(e) ==
    CASE e = "rank" -> <<"_on_rank">>
      [] e = "needPassword" -> <<"_on_needPassword">>
      [] e = "kick" -> <<"_on_kick">>
      [] e = "noflood" -> <<"_on_noflood">>
      [] OTHER -> <<>>

\* The handlers the user registered, for every event the same, by on() calls
\* before run(): they come after the internal handler.
UserSuffixes == {<<>>, <<"h1">>, <<"h1", "h2">>}
LoopHandlers(u) == [e \in LoopEvents |-> InternalOf(e) \o u]

\* The handler returned a falsy value: the loop of trigger() goes on
\* (lines 286-292).
HandlerFalsy ==
    /\ trigIdx' = trigIdx + 1
    /\ UNCHANGED <<stopped, pc, ev, exc, finallyRan, lifecycle, closed>>

\* The handler returned a truthy value: trigger() returns (lines 291-292)
\* and run() awaits the next recv().
HandlerTruthy ==
    /\ trigIdx' = -1
    /\ stopped' = "truthy"
    /\ NextRecv

\* HandlerRaises with the exception kept from the loop of trigger().
HandlerRaisesIsolated(e) ==
    /\ trigIdx' = trigIdx + 1
    /\ UNCHANGED <<stopped, pc, ev, exc, finallyRan, lifecycle, closed>>

\* The handler raised e, which leaves trigger() and run()'s try block.
HandlerRaises(e) ==
    /\ trigIdx' = -1
    /\ stopped' = "raised"
    /\ Unwind(e)
    /\ UNCHANGED ev

loopFixed ==
    <<socket, retry_delay, opened, server, res, joins, auths,
      loginFired, failed, restart_on_error, named, cfgVars, discVars, handlers,
      mutated, dupRejected, kept, mirrorVars, chatVars>>

\* LoopRecv receiving the next event while handlers are still to run.
LoopRecvEarly ==
    /\ pc \in {"recv", "dispatch"}
    /\ \E e \in RecvEvents :
          /\ ev' = e
          /\ trigEvent' = e.name
    /\ trigIdx' = 0
    /\ invoked' = <<>>
    /\ stopped' = "no"
    /\ pc' = "dispatch"
    /\ UNCHANGED <<exc, finallyRan, lifecycle, closed, rank, sleeping, loopFixed>>

\* run(): recv() returns an event and trigger(ev, data) starts iterating
\* the event's handlers (lines 248, 257, 285-286).
LoopRecv ==
    /\ pc = "recv"
    /\ \E e \in RecvEvents :
          /\ ev' = e
          /\ trigEvent' = e.name
    /\ trigIdx' = 0
    /\ invoked' = <<>>
    /\ stopped' = "no"
    /\ pc' = "dispatch"
    /\ UNCHANGED <<exc, finallyRan, lifecycle, closed, rank, sleeping, loopFixed>>

\* trigger(): the next handler of the event's list is invoked (lines
\* 286-292): _on_rank (48-49), _on_needPassword (73-75), _on_noflood
\* (77-78, where the attribute self.loger does not exist), _on_kick (80-81),
\* or a handler of the user, which returns or raises.
HandlerStep ==
    /\ pc = "dispatch"
    /\ trigIdx >= 0
    /\ trigIdx < Len(handlers[trigEvent])
    /\ LET h == handlers[trigEvent][trigIdx + 1] IN
       /\ invoked' = Append(invoked, h)
       /\ rank' = IF h = "_on_rank" THEN ev.data ELSE rank
       /\ CASE h = "_on_rank" -> HandlerFalsy
            [] h = "_on_needPassword" ->
                 IF ev.data # 0 THEN HandlerRaises("LoginError") ELSE HandlerFalsy
            [] h = "_on_kick" -> HandlerRaises("Kicked")
            [] h = "_on_noflood" -> HandlerRaises("AttributeError")
            [] OTHER ->
                 \E r \in {"falsy", "truthy", "raised"} :
                     CASE r = "falsy" -> HandlerFalsy
                       [] r = "truthy" -> HandlerTruthy
                       [] OTHER -> HandlerRaises("HandlerError")
    /\ UNCHANGED <<trigEvent, sleeping, loopFixed>>

\* trigger(): the list is exhausted; trigger() returns and run() awaits the
\* next recv() (lines 286, 257, 246-248).
LoopTriggerReturn ==
    /\ pc = "dispatch"
    /\ trigIdx >= Len(handlers[trigEvent])
    /\ trigIdx' = -1
    /\ NextRecv
    /\ UNCHANGED <<trigEvent, invoked, stopped, rank, sleeping, loopFixed>>

\* The task is cancelled while a handler of the user, a coroutine, is
\* suspended: CancelledError leaves the handler, trigger() and run()'s try
\* block (lines 288, 258-261).  The internal handlers have no await.
HandlerCancelled ==
    /\ pc = "dispatch"
    /\ trigIdx >= 0
    /\ trigIdx < Len(handlers[trigEvent])
    /\ handlers[trigEvent][trigIdx + 1] \in Handlers
    /\ invoked' = Append(invoked, handlers[trigEvent][trigIdx + 1])
    /\ HandlerRaises("CancelledError")
    /\ UNCHANGED <<rank, sleeping, trigEvent, loopFixed>>

\* The task is cancelled at one of run()'s own awaits.
CancelOutsideDispatch == pc # "dispatch" /\ Cancel

\* run() of a bot whose user has no name, its events going through the
\* registry.
NextLoop ==
    \/ RunStart \/ ConnectCloseReturn \/ GetConfigReturn \/ GetConfigFails
    \/ SocketIoReturn \/ SocketIoFails \/ JoinAck \/ JoinFails \/ LoginEventDone
    \/ LoopRecv \/ HandlerStep \/ LoopTriggerReturn
    \/ RecvFails \/ RetrySleepDone \/ HandlerCancelled \/ CancelOutsideDispatch
    \/ FinallyCloseReturn

\* Bot.__init__ with a user that has no name, followed by the user's on()
\* calls.
InitLoop ==
    /\ pc = "start"
    /\ exc = "none"
    /\ socket = NoSocket
    /\ retry_delay = 0
    /\ opened = 0
    /\ closed = {}
    /\ server = None
    /\ rank = -1
    /\ lifecycle = "Disconnected"
    /\ restart_on_error \in BOOLEAN
    /\ named = FALSE
    /\ ev = NoEvent
    /\ sleeping = 0
    /\ res = NoAck
    /\ joins = 0
    /\ auths = 0
    /\ loginFired = FALSE
    /\ failed = NoSocket
    /\ finallyRan = FALSE
    /\ conf = NoConf
    /\ calls = <<>>
    /\ \E u \in UserSuffixes : handlers = LoopHandlers(u)
    /\ trigEvent = "none"
    /\ trigIdx = -1
    /\ invoked = <<>>
    /\ mutated = FALSE
    /\ stopped = "no"
    /\ dupRejected = <<>>
    /\ kept = {}
    /\ IdleMirror
    /\ IdleChat

SpecLoop == InitLoop /\ [][NextLoop]_vars

\* C14: an event is taken in only by a recv() made while no event is being
\* dispatched, and is dispatched at once; while it is dispatched its
\* handlers are invoked one after the other in the order of the list and no
\* other event is taken in; the next recv() is made only once the whole list
\* has been invoked or a handler has returned a truthy value.
C14_DispatchInOrder ==
    [][/\ (pc = "recv" /\ pc' = "dispatch") =>
              /\ trigIdx = -1
              /\ ev = NoEvent
              /\ ev' \in RecvEvents
              /\ trigEvent' = ev'.name
              /\ trigIdx' = 0
              /\ invoked' = <<>>
       /\ (ev' # ev /\ ev' # NoEvent) => (pc = "recv" /\ pc' = "dispatch")
       /\ (trigIdx' >= 0 /\ trigIdx = -1) => (pc = "recv" /\ pc' = "dispatch")
       /\ (pc = "dispatch" /\ pc' = "dispatch") =>
              /\ ev' = ev
              /\ trigEvent' = ev.name
              /\ \/ invoked' = invoked
                 \/ /\ Len(invoked) < Len(handlers[ev.name])
                    /\ invoked' =
                          Append(invoked, handlers[ev.name][Len(invoked) + 1])
       /\ (pc = "dispatch" /\ pc' = "recv") =>
              /\ IsHeadOf(invoked', handlers[ev.name])
              /\ \/ stopped' = "truthy" /\ invoked' # <<>>
                 \/ stopped' = "no" /\ invoked' = handlers[ev.name]
              /\ trigIdx' = -1
              /\ ev' = NoEvent
      ]_vars

C14_Witness ==
    /\ pc = "dispatch"
    /\ ev.name = "chatMsg"
    /\ handlers["chatMsg"] = <<"h1", "h2">>
    /\ invoked = <<"h1">>
    /\ trigIdx = 1
    /\ rank = 1

\* The step in which the internal handler of a kick event, or of a
\* needPassword event with a truthy payload, is invoked.
FatalEvent(e) == e.name = "kick" \/ (e.name = "needPassword" /\ e.data # 0)
FatalError(e) == IF e.name = "kick" THEN "Kicked" ELSE "LoginError"
FatalStep == pc = "dispatch" /\ FatalEvent(ev) /\ invoked' # invoked

\* What C16 says up to the end of run(): the internal handler raises Kicked
\* respectively LoginError; no handler after it is invoked; run() leaves its
\* loop for the finally clause, with restart_on_error set too: no sleep, no
\* new session, no further receive; a needPassword event with a falsy
\* payload raises nothing and the loop of trigger() goes on.
FatalEventAborts ==
    /\ FatalStep =>
           /\ invoked' = InternalOf(ev.name)
           /\ exc' = FatalError(ev)
           /\ trigIdx' = -1
           /\ pc' = "finally_close"
           /\ closed' = closed \cup {socket}
           /\ sleeping' = 0
    /\ (FatalEvent(ev) /\ exc # "none") =>
           /\ pc' \in {"finally_close", "done"}
           /\ UNCHANGED <<invoked, opened, sleeping, ev>>
    /\ (pc = "dispatch" /\ ev.name = "needPassword" /\ ev.data = 0
        /\ invoked = <<>> /\ invoked' = <<"_on_needPassword">>) =>
           /\ exc' = "none"
           /\ pc' = "dispatch"
           /\ trigIdx' = 1
           /\ lifecycle' = "Authenticated"

\* C16 as stated: FatalEventAborts, and run(), unless its task is cancelled
\* on the way, ends with the error the handler raised, the session closed
\* and the handle unset.
C16_FatalEventEndsRun ==
    [][/\ FatalEventAborts
       /\ (FatalEvent(ev) /\ exc # "none" /\ pc' = "done") =>
              /\ exc' \in {FatalError(ev), "CancelledError"}
              /\ socket' = NoSocket
              /\ socket \in closed
      ]_vars

\* C16 amended: FatalEventAborts, and run() ends with the session closed
\* and the handle unset, with the error the handler raised unless the
\* close() of that last disconnect() raises or is cancelled: then run() ends
\* with that exception.
C16_FatalEventEndsRunUnlessCloseFails ==
    [][/\ FatalEventAborts
       /\ (FatalEvent(ev) /\ exc # "none" /\ pc' = "done") =>
              /\ exc' \in {FatalError(ev), "CloseError", "CancelledError"}
              /\ exc = FatalError(ev)
              /\ socket' = NoSocket
              /\ socket \in closed
      ]_vars

C16_Witness ==
    /\ pc = "done"
    /\ exc = "Kicked"
    /\ ev.name = "kick"
    /\ restart_on_error
    /\ handlers["kick"] = <<"_on_kick", "h1", "h2">>
    /\ invoked = <<"_on_kick">>
    /\ stopped = "raised"
    /\ socket = NoSocket
    /\ opened = 1
    /\ closed = {1}

\* C17: the internal handler of a noflood event raises nothing and changes
\* nothing: the bot stays Authenticated with its session and rank, and the
\* loop goes on to the next handler and the next recv().
C17_NofloodOnlyLogged ==
    [][(pc = "dispatch" /\ ev.name = "noflood"
        /\ invoked = <<>> /\ invoked' = <<"_on_noflood">>) =>
           /\ exc' = "none"
           /\ pc' = "dispatch"
           /\ lifecycle' = "Authenticated"
           /\ UNCHANGED <<socket, rank, closed, server>>
      ]_vars

\* The awaits of login() before line 239.
LoginSteps ==
    {"connect_close", "get_config", "socket_io", "join", "auth", "auth_sleep"}

\* C15: a login() call triggers 'login' exactly once if it returns and not
\* at all if it fails before line 239: the event is triggered only by a call
\* that has not triggered it, after the joinChannel acknowledgement and,
\* for a user with a name, after a login acknowledgement reporting success
\* (for a user without a name no login request is emitted); login() returns
\* to run() only from that event; every login() call, the one after a
\* receive error included, starts with the event not triggered; and a call
\* left by an exception or a cancellation before has not triggered it.
C15_LoginFiresOnce ==
    [][/\ (pc' = "login_event" /\ pc # "login_event") =>
              /\ ~loginFired /\ loginFired'
              /\ pc \in {"join", "auth"}
              /\ joins' = 1
              /\ res'.kind = (IF named THEN "login" ELSE "needPassword")
              /\ named => (res'.success /\ auths' >= 1)
              /\ ~named => (~res'.truthy /\ auths' = 0)
       /\ (loginFired' /\ ~loginFired) => pc' = "login_event"
       /\ (pc' = "recv" /\ pc \notin {"recv", "dispatch"}) =>
              (pc = "login_event" /\ loginFired /\ loginFired')
       /\ (pc \in {"start", "retry_sleep"} /\ pc' \in LoginSteps) => ~loginFired'
       /\ (pc \in LoginSteps /\ pc' \notin LoginSteps \cup {"login_event"}) =>
              (exc' # "none" /\ ~loginFired')
       /\ (pc \in LoginSteps /\ pc' \in LoginSteps) => ~loginFired'
      ]_vars

C15_Witness ==
    /\ pc = "recv"
    /\ ~named
    /\ opened = 2
    /\ closed = {1}
    /\ loginFired
    /\ auths = 0
    /\ lifecycle = "Authenticated"

\* ------------------------------------- connect() called again and again
\* A caller that calls connect() and disconnect() in any order; a connect()
\* may fail at any of its awaits.  exc is what the last connect() raised.
\* connect() is called (lines 188, 174-178): it calls disconnect().
CallConnect ==
    /\ pc = "idle"
    /\ opened < MaxSessions
    /\ exc' = "none"
    /\ calls' = <<>>
    /\ IF socket = NoSocket
       THEN pc' = AfterDisconnect /\ UNCHANGED closed
       ELSE pc' = "connect_close" /\ closed' = closed \cup {socket}
    /\ UNCHANGED <<socket, retry_delay, opened, server, rank, failed, lifecycle,
                   restart_on_error, named, ev, sleeping, res, joins, auths,
                   loginFired, finallyRan, cfgVars, regVars, mirrorVars, chatVars>>

\* connect()'s disconnect(): close() returns, or raises and connect() is
\* left (lines 177-184, 189).
ConnectClosed ==
    /\ pc = "connect_close"
    /\ DisconnectCleanup
    /\ \E ok \in BOOLEAN :
          IF ok
          THEN pc' = AfterDisconnect /\ UNCHANGED exc
          ELSE pc' = "idle" /\ exc' = "CloseError"
    /\ UNCHANGED <<opened, closed, server, calls, lifecycle, restart_on_error,
                   named, ev, sleeping, res, joins, auths, loginFired, finallyRan,
                   cfgVars, regVars, mirrorVars, chatVars>>

\* ConnectResolved caching what it can of a document it rejects.
ConnectResolvedCachesFailure ==
    /\ pc = "get_config"
    /\ \E c \in Confs :
          LET r == get_socket_config(c, server) IN
          /\ server' = IF r.raised = "none" THEN r.server ELSE SOCKET_IO_URL("A")
          /\ exc' = r.raised
          /\ pc' = IF r.raised = "none" THEN "socket_io" ELSE "idle"
    /\ UNCHANGED <<socket, retry_delay, opened, closed, rank, failed, calls,
                   lifecycle, restart_on_error, named, ev, sleeping, res, joins,
                   auths, loginFired, finallyRan, cfgVars, regVars, mirrorVars,
                   chatVars>>

\* connect(): get_socket_config() returns with the endpoint cached, or
\* raises (lines 189-190, 149-170).
ConnectResolved ==
    /\ pc = "get_config"
    /\ \E c \in Confs :
          LET r == get_socket_config(c, server) IN
          /\ server' = r.server
          /\ exc' = r.raised
          /\ pc' = IF r.raised = "none" THEN "socket_io" ELSE "idle"
    /\ UNCHANGED <<socket, retry_delay, opened, closed, rank, failed, calls,
                   lifecycle, restart_on_error, named, ev, sleeping, res, joins,
                   auths, loginFired, finallyRan, cfgVars, regVars, mirrorVars,
                   chatVars>>

\* connect(): the fetch of the configuration itself fails (line 149).
ConnectFetchFails ==
    /\ pc = "get_config"
    /\ exc' = "GetError"
    /\ pc' = "idle"
    /\ UNCHANGED <<socket, retry_delay, opened, closed, server, rank, failed,
                   calls, lifecycle, restart_on_error, named, ev, sleeping, res,
                   joins, auths, loginFired, finallyRan, cfgVars, regVars,
                   mirrorVars, chatVars>>

\* connect(): the transport opens a session on the cached endpoint, or
\* fails to (line 192).
ConnectOpened ==
    /\ pc = "socket_io"
    /\ \E ok \in BOOLEAN :
          IF ok
          THEN /\ \E d \in RetryDelays : retry_delay' = d
               /\ socket' = opened + 1
               /\ opened' = opened + 1
               /\ UNCHANGED exc
          ELSE /\ exc' = "SocketIOError"
               /\ UNCHANGED <<socket, retry_delay, opened>>
    /\ pc' = "idle"
    /\ UNCHANGED <<closed, server, rank, failed, calls, lifecycle,
                   restart_on_error, named, ev, sleeping, res, joins, auths,
                   loginFired, finallyRan, cfgVars, regVars, mirrorVars, chatVars>>

NextConnect ==
    \/ CallConnect \/ ConnectClosed \/ ConnectResolved \/ ConnectFetchFails
    \/ ConnectOpened \/ DisconnectCall \/ DisconnectCloseReturn

SpecConnect == InitDisconnect /\ [][NextConnect]_vars

\* C18: connect() closes the session held before anything else, resolves
\* the endpoint exactly when none is cached, and opens the new session with
\* no session held and every earlier one closed; an endpoint once cached is
\* never changed or cleared, so no later connect() resolves again; a
\* resolution that fails leaves the cache unset, and the next connect()
\* resolves again.
C18_EndpointCachedOnce ==
    [][/\ server # None => server' = server
       /\ (pc = "idle" /\ pc' \in {"connect_close", "get_config", "socket_io"}) =>
              /\ pc' = "connect_close" <=> socket # NoSocket
              /\ pc' = "get_config" <=> (socket = NoSocket /\ server = None)
              /\ pc' = "connect_close" => socket \in closed'
       /\ (pc = "connect_close" /\ pc' \notin {"connect_close", "idle"}) =>
              /\ socket' = NoSocket
              /\ pc' = "get_config" <=> server = None
              /\ pc' = "socket_io" <=> server # None
       /\ pc = "get_config" => server = None
       /\ (pc = "get_config" /\ exc' # "none") => (server' = None /\ pc' = "idle")
       /\ (pc = "get_config" /\ pc' = "socket_io") =>
              (server' # None /\ exc' = "none")
       /\ opened' # opened =>
              /\ pc = "socket_io"
              /\ server # None
              /\ socket = NoSocket
              /\ socket' = opened'
              /\ \A n \in 1..opened : n \in closed
      ]_vars

C18_Witness ==
    /\ pc = "idle"
    /\ server # None
    /\ opened = 3
    /\ socket = 3
    /\ closed = {1, 2}
    /\ exc = "none"

====
